---------------------------- MODULE Spec2Model ----------------------------
(***************************************************************************)
(* De-Synthesize Pro: the App component (upload, develop, history), the    *)
(* processImage service and the local history store, as a state machine.   *)
(*                                                                         *)
(* Strings the code inspects (error messages, refusal text, data URLs) are *)
(* sequences of tokens: a token is a piece of text the code never looks    *)
(* inside (" " stands for a run of white space).                           *)
(***************************************************************************)
EXTENDS Integers, Sequences, FiniteSets, TLC

VARIABLES
  \* ---- React state of App (src/unnamed/part_000:105-117)
  originalBase64, processedUrl, processingState, imageSize, aspectRatio,
  filmStock, iso, skinDetail, history, compareMode, zoomScale, isKeyReady,
  showKeyModal,
  \* ---- the environment of App
  sessionFlag,    \* sessionStorage[SESSION_KEY] = 'true'
  store,          \* the persistent table of records behind dbService
  now,            \* the reading of Date.now()
  runs,           \* the startProcessing invocations that have not returned
  activating,     \* a handleKeyActivation awaits openSelectKey
  deleting,       \* the ids whose deleteHistoryItem awaits the store
  mount,          \* the two async functions of the mount effect (l. 129-147)
  \* ---- processImage taken alone: the API's behaviour and what it yields
  apiIn, piOut,
  \* ---- buildFinalPrompt taken alone: the prompt it has built
  promptOut,
  \* ---- parseErrorMessage taken alone: what the error panel has parsed
  parsed,
  \* ---- the room a specification gives to prints (records and pending invocations)
  printLimit,
  \* ---- the state of ComparisonSlider (src/components/ComparisonSlider.tsx:12-19)
  slider

appVars == <<originalBase64, processedUrl, processingState, imageSize,
             aspectRatio, filmStock, iso, skinDetail, history, compareMode,
             zoomScale, isKeyReady, showKeyModal, sessionFlag, store, now,
             runs, activating, deleting>>
piVars == <<apiIn, piOut>>
fixedVars == <<piVars, promptOut, parsed, printLimit, slider>>
vars == <<appVars, fixedVars, mount>>

NULL == "null"

\* the null of a state that otherwise holds a data URL (a token string)
NoUrl == <<>>

Range(s) == {s[i] : i \in DOMAIN s}

RECURSIVE Concat(_)
Concat(ss) == IF ss = <<>> THEN <<>> ELSE Head(ss) \o Concat(Tail(ss))

(***************************************************************************)
(* String.prototype.trim on a token string: leading and trailing white     *)
(* space is dropped.                                                       *)
(***************************************************************************)
RECURSIVE TrimStart(_)
TrimStart(s) ==
  IF s # <<>> /\ Head(s) = " " THEN TrimStart(Tail(s)) ELSE s

RECURSIVE TrimEnd(_)
TrimEnd(s) ==
  IF s # <<>> /\ s[Len(s)] = " " THEN TrimEnd(SubSeq(s, 1, Len(s) - 1)) ELSE s

Trim(s) == TrimEnd(TrimStart(s))

Includes(s, tok) == tok \in Range(s)

StartsWith(s, tok) == s # <<>> /\ Head(s) = tok

\* where tok first occurs in s
IndexOf(s, tok) ==
  CHOOSE k \in DOMAIN s : s[k] = tok /\ \A j \in 1..(k - 1) : s[j] # tok

\* String.prototype.split: the pieces of s between the occurrences of tok
RECURSIVE Split(_, _)
Split(s, tok) ==
  IF ~Includes(s, tok) THEN <<s>>
  ELSE <<SubSeq(s, 1, IndexOf(s, tok) - 1)>>
         \o Split(SubSeq(s, IndexOf(s, tok) + 1, Len(s)), tok)

\* String.prototype.replace(tok, ""): s without the first occurrence of tok
ReplaceFirst(s, tok) ==
  IF ~Includes(s, tok) THEN s
  ELSE SubSeq(s, 1, IndexOf(s, tok) - 1) \o SubSeq(s, IndexOf(s, tok) + 1, Len(s))

(***************************************************************************)
(* processImage (src/services/geminiService.ts)                            *)
(***************************************************************************)
NoData == "undefined"      \* a part without inlineData, a candidate without finishReason
NoStatus == 0              \* an error object without a status

\* the messages of the errors processImage constructs
REJECT_NO_CANDIDATES ==
  <<"REJECTION:", " ", "The Lab could not process this image.", " ", "WHY:", " ",
    "The source image triggered automated safety filters, which often happens with content that is interpreted as sensitive or restricted.",
    " ", "REMEDY:", " ",
    "Please try a different photo. Ensure the subject is clearly a standard portrait and the composition is neutral.">>

REJECT_SAFETY ==
  <<"REJECTION:", " ", "Development halted due to safety guardrails.", " ", "WHY:", " ",
    "The Emulsion Engine detected features in the image that are restricted for processing. This is a common precaution for certain types of portraits.",
    " ", "REMEDY:", " ",
    "Try an image with more standard lighting, a clear head-and-shoulders crop, or a different character subject.">>

REJECT_RECITATION ==
  <<"REJECTION:", " ", "Style processing failed.", " ", "WHY:", " ",
    "The requested development style or the subject matter closely matches protected content or copyright-sensitive material.",
    " ", "REMEDY:", " ",
    "Try a different film stock or a less specific subject to proceed with development.">>

REJECT_OTHER ==
  <<"REJECTION:", " ", "An unexpected lab interruption occurred.", " ", "WHY:", " ",
    "The model encountered an internal error or the content was rejected for an unspecified safety reason.",
    " ", "REMEDY:", " ",
    "Attempt the development again with a slightly different grain intensity or a new source image.">>

REJECT_TEXT(refusal) ==
  <<"REJECTION:", " ", "The Lab encountered a problem.", " ", "WHY:", " ">>
    \o refusal \o
  <<" ", "REMEDY:", " ",
    "Adjust your input image or settings to resolve the concern mentioned above.">>

REJECT_NO_IMAGE ==
  <<"REJECTION:", " ", "The Lab was unable to generate the new texture.", " ", "WHY:", " ",
    "Although the image was accepted, the reconstruction process failed to complete safely.",
    " ", "REMEDY:", " ",
    "Please try a different image. Ensure the person is in a well-lit environment and the framing is a typical photographic portrait.">>

PERMISSION_DENIED ==
  <<"PERMISSION_DENIED:", " ",
    "gemini-3-pro-image-preview requires a PAID API key from a Google Cloud project with billing enabled. Please check your project status at ai.google.dev/gemini-api/docs/billing">>

KEY_RESET_REQUIRED == <<"KEY_RESET_REQUIRED">>

RATE_LIMIT ==
  <<"The lab is busy.", " ", "WHY:", " ", "Rate limit exceeded.", " ", "REMEDY:", " ",
    "Please wait 60 seconds before submitting the next negative for development.">>

GENERIC_FAILURE ==
  <<"A technical chemical imbalance occurred in the lab. Please check your connection and try again.">>

\* tokens of an API error message that the catch block looks for
T403 == "403"
T429 == "429"
TNotFound == "Requested entity was not found."

PngDataUrl(data) == <<"data:", "image/png", ";base64,", data>>

Throw(msg, status) == [kind |-> "throw", message |-> msg, status |-> status]
Return(value) == [kind |-> "return", value |-> value]

\* the for loop over candidate.content.parts (lines 59-69)
RECURSIVE ScanParts(_, _)
ScanParts(parts, refusalText) ==
  IF parts = <<>> THEN [found |-> FALSE, data |-> NoData, refusalText |-> refusalText]
  ELSE LET part == Head(parts) IN
       IF part.inlineData # NoData
         THEN [found |-> TRUE, data |-> part.inlineData, refusalText |-> refusalText]
         ELSE ScanParts(Tail(parts),
                        IF part.text # <<>> THEN refusalText \o part.text \o <<" ">>
                                            ELSE refusalText)

\* OnResponse without the check of finishReason OTHER
OnResponseNoOther(response) ==
  IF response.candidates = <<>> THEN Throw(REJECT_NO_CANDIDATES, NoStatus)
  ELSE LET candidate == response.candidates[1] IN
    IF candidate.finishReason = "SAFETY" THEN Throw(REJECT_SAFETY, NoStatus)
    ELSE IF candidate.finishReason = "RECITATION" THEN Throw(REJECT_RECITATION, NoStatus)
    ELSE LET scan == ScanParts(candidate.parts, <<>>) IN
      IF scan.found THEN Return(PngDataUrl(scan.data))
      ELSE IF Trim(scan.refusalText) # <<>>
        THEN Throw(REJECT_TEXT(Trim(scan.refusalText)), NoStatus)
        ELSE Throw(REJECT_NO_IMAGE, NoStatus)

\* OnResponse looking for the image before it looks at the finish reason
OnResponseImageFirst(response) ==
  IF response.candidates = <<>> THEN Throw(REJECT_NO_CANDIDATES, NoStatus)
  ELSE LET candidate == response.candidates[1]
           scan == ScanParts(candidate.parts, <<>>)
       IN
    IF scan.found THEN Return(PngDataUrl(scan.data))
    ELSE IF candidate.finishReason = "SAFETY" THEN Throw(REJECT_SAFETY, NoStatus)
    ELSE IF candidate.finishReason = "RECITATION" THEN Throw(REJECT_RECITATION, NoStatus)
    ELSE IF candidate.finishReason = "OTHER" THEN Throw(REJECT_OTHER, NoStatus)
    ELSE IF Trim(scan.refusalText) # <<>>
      THEN Throw(REJECT_TEXT(Trim(scan.refusalText)), NoStatus)
      ELSE Throw(REJECT_NO_IMAGE, NoStatus)

\* what follows the await inside the try block, for a response (lines 38-77)
OnResponse(response) ==
  IF response.candidates = <<>> THEN Throw(REJECT_NO_CANDIDATES, NoStatus)
  ELSE LET candidate == response.candidates[1] IN
    IF candidate.finishReason = "SAFETY" THEN Throw(REJECT_SAFETY, NoStatus)
    ELSE IF candidate.finishReason = "RECITATION" THEN Throw(REJECT_RECITATION, NoStatus)
    ELSE IF candidate.finishReason = "OTHER" THEN Throw(REJECT_OTHER, NoStatus)
    ELSE LET scan == ScanParts(candidate.parts, <<>>) IN
      IF scan.found THEN Return(PngDataUrl(scan.data))
      ELSE IF Trim(scan.refusalText) # <<>>
        THEN Throw(REJECT_TEXT(Trim(scan.refusalText)), NoStatus)
        ELSE Throw(REJECT_NO_IMAGE, NoStatus)

\* the try block (lines 14-77): generateContent resolves with a response or rejects
TryBlock(api) ==
  IF api.kind = "throw" THEN Throw(api.message, api.status) ELSE OnResponse(api.response)

\* CatchBlock looking for '429' before 'Requested entity was not found.'
CatchBlockRateLimitFirst(error) ==
  IF StartsWith(error.message, "REJECTION:") THEN error.message
  ELSE LET errorMessage == error.message IN
    IF Includes(errorMessage, T403) \/ error.status = 403 THEN PERMISSION_DENIED
    ELSE IF Includes(errorMessage, T429) THEN RATE_LIMIT
    ELSE IF Includes(errorMessage, TNotFound) THEN KEY_RESET_REQUIRED
    ELSE IF errorMessage # <<>> THEN errorMessage ELSE GENERIC_FAILURE

\* CatchBlock looking for the API's error codes before it looks for REJECTION
CatchBlockCodesFirst(error) ==
  LET errorMessage == error.message IN
  IF Includes(errorMessage, T403) \/ error.status = 403 THEN PERMISSION_DENIED
  ELSE IF Includes(errorMessage, TNotFound) THEN KEY_RESET_REQUIRED
  ELSE IF Includes(errorMessage, T429) THEN RATE_LIMIT
  ELSE IF errorMessage # <<>> THEN errorMessage ELSE GENERIC_FAILURE

\* the catch block (lines 79-103): the message of the error it throws
CatchBlock(error) ==
  IF StartsWith(error.message, "REJECTION:") THEN error.message
  ELSE LET errorMessage == error.message IN
    IF Includes(errorMessage, T403) \/ error.status = 403 THEN PERMISSION_DENIED
    ELSE IF Includes(errorMessage, TNotFound) THEN KEY_RESET_REQUIRED
    ELSE IF Includes(errorMessage, T429) THEN RATE_LIMIT
    ELSE IF errorMessage # <<>> THEN errorMessage ELSE GENERIC_FAILURE

\* processImage: [ok |-> TRUE, url] when it returns, [ok |-> FALSE, message] when it throws
ProcessImage(api) ==
  LET t == TryBlock(api) IN
  IF t.kind = "return" THEN [ok |-> TRUE, url |-> t.value, message |-> <<>>]
  ELSE [ok |-> FALSE, url |-> NoUrl, message |-> CatchBlock(t)]


(***************************************************************************)
(* App (src/unnamed/part_000): constants and pure helpers                  *)
(***************************************************************************)
ImageSizes == {"1K", "2K", "4K"}
AspectRatios == {"1:1", "3:4", "4:3", "9:16", "16:9"}
ISOValues == {200, 400, 800, 1600}

FILM_STOCK_CHARACTERISTICS ==
  [stock \in {"Kodak Portra 400", "Kodak Gold 200", "Kodak Ektachrome E100",
              "Kodak Tri-X 400 (B&W)", "Fujifilm Velvia 50", "Fujifilm Provia 100F",
              "Fujifilm Pro 400H", "Ilford HP5 Plus (B&W)", "Cinestill 800T"} |->
    CASE stock = "Kodak Portra 400" -> "Legendary skin tones. Warm, golden hues with a natural highlight roll-off. Ideal for portraits requiring a soft, organic feel."
      [] stock = "Kodak Gold 200" -> "The classic consumer aesthetic. Saturated yellows and punchy reds with a warm, nostalgic 90s snapshot vibe."
      [] stock = "Kodak Ektachrome E100" -> "Professional color reversal film. Exceptional sharpness, clean cool shadows, and neutral, realistic whites."
      [] stock = "Kodak Tri-X 400 (B&W)" -> "High-contrast monochrome. Gritty, punchy textures with deep blacks and a legendary journalistic character."
      [] stock = "Fujifilm Velvia 50" -> "Hyper-saturated color. Intense greens and magentas with very high contrast. A distinctive, high-drama slide film look."
      [] stock = "Fujifilm Provia 100F" -> "Balanced professional slide film. Neutral color reproduction with incredible sharpness and fine grain structure."
      [] stock = "Fujifilm Pro 400H" -> "Pastel palette. Soft, airy tones with a signature subtle cyan/green tint in the shadows. Perfect for ethereal lighting."
      [] stock = "Ilford HP5 Plus (B&W)" -> "Classic street photography film. Wide tonal range with a punchy, organic grain that feels raw and authentic."
      [] OTHER -> "Cinematic tungsten-balanced film. Unique \"red glow\" halation around bright lights with a cool, moody night-time color shift."]

FilmStock == DOMAIN FILM_STOCK_CHARACTERISTICS

SKIN_LIGHT ==
  "Apply a light photographic grain and micro-texture to the skin, effectively removing synthetic digital smoothness while keeping the character's appearance clean and polished."
SKIN_HIGH ==
  "Apply professional high-fidelity skin reconstruction. Focus on restoring intricate skin details like natural pore structure and fine organic textures. The result should feel raw and authentic, resembling an unretouched high-resolution film negative, while honoring the character's original features and avoiding any exaggerated blemishes."
SKIN_NATURAL ==
  "Restore realistic skin texture with natural variation. Preserve the character's features while adding the subtle depth and organic feel of real skin, effectively bridging the gap between digital generation and authentic photography."

\* BASE_PROMPT_TEMPLATE with the thresholds taken inclusively
BASE_PROMPT_TEMPLATE_Inclusive(intensity) ==
  LET skinPrompt == IF intensity <= 30 THEN SKIN_LIGHT
                    ELSE IF intensity >= 70 THEN SKIN_HIGH
                    ELSE SKIN_NATURAL
  IN <<"A portrait with ", skinPrompt,
       ", while maintaining consistent lighting, props, and set design.">>

BASE_PROMPT_TEMPLATE(intensity) ==
  LET skinPrompt == IF intensity < 30 THEN SKIN_LIGHT
                    ELSE IF intensity > 70 THEN SKIN_HIGH
                    ELSE SKIN_NATURAL
  IN <<"A portrait with ", skinPrompt,
       ", while maintaining consistent lighting, props, and set design.">>

\* buildFinalPrompt naming the requested size in the prompt
buildFinalPromptWithSize(c) ==
  BASE_PROMPT_TEMPLATE(c.skinDetail)
    \o <<" ", FILM_STOCK_CHARACTERISTICS[c.filmStock], " ">>
    \o <<"Add a substantial amount of organic film grain, resembling a ",
         ToString(c.iso), " ISO film to the image, at ", c.imageSize>>

\* `c` is the render whose closure buildFinalPrompt belongs to: what startProcessing
\* reads of the App state is in it
buildFinalPrompt(c) ==
  LET basePrompt == BASE_PROMPT_TEMPLATE(c.skinDetail)
      grainPrompt == <<"Add a substantial amount of organic film grain, resembling a ",
                       ToString(c.iso),
                       " ISO film to the image, preserving the original aesthetic. The grain should feel raw and authentic.">>
      stockPrompt == FILM_STOCK_CHARACTERISTICS[c.filmStock]
  IN basePrompt \o <<" ", stockPrompt, " ">> \o grainPrompt

Abs(x) == IF x < 0 THEN -x ELSE x

\* standardRatios, each as <<numerator, denominator, value>>
standardRatios ==
  << <<1, 1, "1:1">>, <<3, 4, "3:4">>, <<4, 3, "4:3">>, <<9, 16, "9:16">>,
     <<16, 9, "16:9">> >>

\* |curr.ratio - width/height| < |prev.ratio - width/height|, cross-multiplied
Closer(curr, prev, width, height) ==
  Abs(curr[1] * height - curr[2] * width) * prev[2]
    < Abs(prev[1] * height - prev[2] * width) * curr[2]

RECURSIVE ReduceClosest(_, _, _, _)
ReduceClosest(prev, rest, width, height) ==
  IF rest = <<>> THEN prev
  ELSE ReduceClosest(IF Closer(Head(rest), prev, width, height) THEN Head(rest) ELSE prev,
                     Tail(rest), width, height)

calculateClosestAspectRatio(width, height) ==
  ReduceClosest(Head(standardRatios), Tail(standardRatios), width, height)[3]

\* FileReader.readAsDataURL
DataUrl(mime, data) == <<"data:", mime, ";base64,", data>>
\* originalBase64.split(',')[1]
Base64DataOf(url) == url[4]
\* originalBase64.split(';')[0].split(':')[1]
MimeTypeOf(url) == url[2]

(***************************************************************************)
(* The hosted model: the bytes it returns for a request.  Developed(b) is  *)
(* "the image b, developed".                                               *)
(***************************************************************************)
Developed(base64Image) == <<"developed", base64Image>>


(***************************************************************************)
(* Bounds and the inputs the user and the environment choose from          *)
(***************************************************************************)
MaxRuns == 2         \* startProcessing invocations that may be pending together
MaxHistory == 2      \* records the history may hold
MaxClock == 1        \* readings Date.now() may advance through

\* the files the user picks: type, bytes, and the decoded image's dimensions
Files ==
  { [mime |-> "image/png", data |-> "AAAA", width |-> 1024, height |-> 1024],
    [mime |-> "image/jpeg", data |-> "BBBB", width |-> 768, height |-> 1024] }

FilmStockChoices == {"Kodak Portra 400", "Fujifilm Velvia 50"}
IsoChoices == {400, 800}
SkinDetailChoices == {0, 50, 75}   \* the slider's lowest position among them
ImageSizeChoices == {"1K", "2K"}

\* what generateContent may do with a request: answer with the developed image,
\* answer blocked, or reject
OkResponse(base64Image) ==
  [kind |-> "response",
   response |-> [candidates |->
     << [finishReason |-> "STOP",
         parts |-> << [inlineData |-> Developed(base64Image), text |-> <<>>] >>] >>]]

SafetyResponse ==
  [kind |-> "response",
   response |-> [candidates |-> << [finishReason |-> "SAFETY", parts |-> <<>>] >>]]

ApiRejects(msg, status) == [kind |-> "throw", message |-> msg, status |-> status]

ApiBehaviours(base64Image) ==
  { OkResponse(base64Image), SafetyResponse,
    ApiRejects(<<TNotFound>>, 404), ApiRejects(<<T429, " ", "quota">>, 429) }

\* the messages of the errors the store may reject with (the last has none)
StoreErrors == { <<"QuotaExceededError">>, <<>> }

(***************************************************************************)
(* App state                                                               *)
(***************************************************************************)
Idle == [status |-> "idle", message |-> <<>>]
CheckingKey == [status |-> "checking-key", message |-> <<"Verifying Emulsion Engine...">>]
Processing(c) ==
  [status |-> "processing",
   message |-> <<"Developing as ", c.filmStock, " at ISO ", ToString(c.iso), "...">>]
Failed(msg) == [status |-> "error", message |-> msg]

\* the state a render closes over: what a handler created by that render reads
Render ==
  [originalBase64 |-> originalBase64, imageSize |-> imageSize,
   aspectRatio |-> aspectRatio, filmStock |-> filmStock, iso |-> iso,
   skinDetail |-> skinDetail]

\* the branch of the main view that is rendered (lines 524-662)
MainView ==
  IF compareMode THEN "compare"
  ELSE IF processingState.status # "idle" /\ processingState.status # "error"
    THEN "developing"
  ELSE IF processedUrl # NoUrl /\ originalBase64 # NoUrl THEN "comparison"
  ELSE IF processingState.status = "error" THEN "error"
  ELSE "placeholder"

\* what JavaScript yields for a piece that is not there
Undefined == <<NoData>>

\* parseErrorMessage (l. 276-289); the fields it leaves out are Undefined
parseErrorMessage(msg) ==
  IF StartsWith(msg, "REJECTION:")
    THEN LET parts == Split(msg, "WHY:")
             main == Trim(ReplaceFirst(parts[1], "REJECTION:"))
             whyAndRemedy == IF Len(parts) >= 2 /\ parts[2] # <<>>
                               THEN Split(parts[2], "REMEDY:")
                               ELSE <<Undefined, Undefined>>
         IN [type |-> "rejection",
             main |-> main,
             why |-> IF whyAndRemedy[1] = Undefined THEN Undefined
                     ELSE Trim(whyAndRemedy[1]),
             remedy |-> IF Len(whyAndRemedy) >= 2 /\ whyAndRemedy[2] # Undefined
                          THEN Trim(whyAndRemedy[2])
                          ELSE Undefined]
    ELSE [type |-> "error", main |-> msg, why |-> Undefined, remedy |-> Undefined]

\* the submit button's disabled attribute (line 514)
SubmitDisabled == originalBase64 = NoUrl \/ processingState.status # "idle"

NoRequest == [base64Data |-> NULL, mimeType |-> NULL, prompt |-> <<>>,
              size |-> NULL, aspectRatio |-> NULL]
NoEntry == [id |-> NULL]

RemoveAt(s, i) == SubSeq(s, 1, i - 1) \o SubSeq(s, i + 1, Len(s))

Ids(records) == {records[k].id : k \in DOMAIN records}

RECURSIVE Filter(_, _)
Filter(records, id) ==
  IF records = <<>> THEN <<>>
  ELSE IF Head(records).id # id THEN <<Head(records)>> \o Filter(Tail(records), id)
  ELSE Filter(Tail(records), id)

(***************************************************************************)
(* dbService: the table of records, keyed by id, in insertion order        *)
(***************************************************************************)
saveHistoryItem(table, item) ==
  IF item.id \in Ids(table)
    THEN [k \in DOMAIN table |-> IF table[k].id = item.id THEN item ELSE table[k]]
    ELSE Append(table, item)

deleteHistoryItemFromDB(table, id) == Filter(table, id)


(***************************************************************************)
(* zoomScale is kept in halves: the value 1 is ZOOM_MIN, 4 is ZOOM_MAX and  *)
(* the buttons' delta of 0.5 is ZOOM_STEP.                                  *)
(***************************************************************************)
ZOOM_MIN == 2
ZOOM_MAX == 8
ZOOM_STEP == 1

Min(a, b) == IF a < b THEN a ELSE b
Max(a, b) == IF a > b THEN a ELSE b

(***************************************************************************)
(* handleFileUpload: img.onload for the file the user picked (l. 156-175)   *)
(***************************************************************************)
handleFileUpload(file) ==
  /\ aspectRatio' = calculateClosestAspectRatio(file.width, file.height)
  /\ originalBase64' = DataUrl(file.mime, file.data)
  /\ processedUrl' = NoUrl
  /\ processingState' = Idle
  /\ zoomScale' = ZOOM_MIN
  /\ UNCHANGED <<imageSize, filmStock, iso, skinDetail, history, compareMode,
                 isKeyReady, showKeyModal, sessionFlag, store, now, runs,
                 activating, deleting>>
  /\ UNCHANGED <<fixedVars, mount>>

(***************************************************************************)
(* startProcessing (l. 205-259), one action per stretch between awaits      *)
(***************************************************************************)
\* the click on the submit button, up to the first await
startProcessing ==
  /\ ~SubmitDisabled
  /\ IF ~sessionFlag
       THEN /\ showKeyModal' = TRUE
            /\ UNCHANGED <<processingState, runs>>
       ELSE /\ Len(runs) < MaxRuns
            /\ Len(history) + Len(runs) < printLimit
            /\ processingState' = CheckingKey
            /\ runs' = Append(runs, [pc |-> "hasSelectedApiKey", c |-> Render,
                                     req |-> NoRequest, entry |-> NoEntry,
                                     calls |-> 0])
            /\ UNCHANGED showKeyModal
  /\ UNCHANGED <<originalBase64, processedUrl, imageSize, aspectRatio, filmStock,
                 iso, skinDetail, history, compareMode, zoomScale, isKeyReady,
                 sessionFlag, store, now, activating, deleting>>
  /\ UNCHANGED <<fixedVars, mount>>

\* the arguments of the processImage call (l. 225-228)
Request(c) ==
  [base64Data |-> Base64DataOf(c.originalBase64),
   mimeType |-> MimeTypeOf(c.originalBase64),
   prompt |-> buildFinalPrompt(c),
   size |-> c.imageSize,
   aspectRatio |-> c.aspectRatio]

\* hasSelectedApiKey settles: "true", "false", or "reject" (the await is outside
\* the try block, so a rejection ends the invocation there)
hasSelectedApiKeySettles(i, hasKey) ==
  /\ i \in DOMAIN runs
  /\ runs[i].pc = "hasSelectedApiKey"
  /\ CASE hasKey = "reject" ->
            /\ runs' = RemoveAt(runs, i)
            /\ UNCHANGED <<showKeyModal, processingState>>
       [] hasKey = "false" ->
            /\ showKeyModal' = TRUE
            /\ processingState' = Idle
            /\ runs' = RemoveAt(runs, i)
       [] OTHER ->
            /\ processingState' = Processing(runs[i].c)
            /\ runs' = [runs EXCEPT ![i] =
                 [@ EXCEPT !.pc = "processImage", !.req = Request(runs[i].c),
                           !.calls = @ + 1]]
            /\ UNCHANGED showKeyModal
  /\ UNCHANGED <<originalBase64, processedUrl, imageSize, aspectRatio, filmStock,
                 iso, skinDetail, history, compareMode, zoomScale, isKeyReady,
                 sessionFlag, store, now, activating, deleting>>
  /\ UNCHANGED <<fixedVars, mount>>

\* newEntry reading the state as it is when processImage settles, not the
\* invocation's closure
NewEntryFromLiveState(c, finalPrompt, resultUrl, clock) ==
  [id |-> ToString(clock),
   originalUrl |-> originalBase64,
   processedUrl |-> resultUrl,
   timestamp |-> clock,
   prompt |-> finalPrompt,
   size |-> imageSize,
   aspectRatio |-> aspectRatio,
   filmStock |-> filmStock,
   iso |-> iso,
   skinDetail |-> skinDetail,
   selected |-> FALSE]

\* newEntry (l. 230-242), built from the invocation's closure
NewEntry(c, finalPrompt, resultUrl, clock) ==
  [id |-> ToString(clock),
   originalUrl |-> c.originalBase64,
   processedUrl |-> resultUrl,
   timestamp |-> clock,
   prompt |-> finalPrompt,
   size |-> c.imageSize,
   aspectRatio |-> c.aspectRatio,
   filmStock |-> c.filmStock,
   iso |-> c.iso,
   skinDetail |-> c.skinDetail,
   selected |-> FALSE]

\* a catch block that issues the call again for an error other than a key reset
startProcessingCatchRetry(i, msg) ==
  IF msg = KEY_RESET_REQUIRED
    THEN /\ sessionFlag' = FALSE
         /\ showKeyModal' = TRUE
         /\ processingState' = Idle
         /\ runs' = RemoveAt(runs, i)
    ELSE /\ runs' = [runs EXCEPT ![i] =
              [@ EXCEPT !.pc = "processImage", !.calls = @ + 1]]
         /\ UNCHANGED <<sessionFlag, showKeyModal, processingState>>

\* a catch block without the case of KEY_RESET_REQUIRED
startProcessingCatchNoReset(i, msg) ==
  /\ processingState' =
       Failed(IF msg # <<>> THEN msg ELSE <<"Chemical imbalance detected.">>)
  /\ UNCHANGED <<sessionFlag, showKeyModal>>
  /\ runs' = RemoveAt(runs, i)

\* the catch block of startProcessing (l. 250-258) for an error with message msg
startProcessingCatch(i, msg) ==
  /\ IF msg = KEY_RESET_REQUIRED
       THEN /\ sessionFlag' = FALSE
            /\ showKeyModal' = TRUE
            /\ processingState' = Idle
       ELSE /\ processingState' =
                 Failed(IF msg # <<>> THEN msg ELSE <<"Chemical imbalance detected.">>)
            /\ UNCHANGED <<sessionFlag, showKeyModal>>
  /\ runs' = RemoveAt(runs, i)

\* processImage settles for invocation i, the API having behaved as `api`
processImageSettles(i, api) ==
  /\ i \in DOMAIN runs
  /\ runs[i].pc = "processImage"
  /\ LET result == ProcessImage(api) IN
     IF result.ok
       THEN /\ processedUrl' = result.url
            /\ runs' = [runs EXCEPT ![i] =
                 [@ EXCEPT !.pc = "saveHistoryItem",
                           !.entry = NewEntry(runs[i].c, runs[i].req.prompt,
                                              result.url, now)]]
            /\ UNCHANGED <<processingState, sessionFlag, showKeyModal>>
       ELSE /\ startProcessingCatch(i, result.message)
            /\ UNCHANGED processedUrl
  /\ UNCHANGED <<originalBase64, imageSize, aspectRatio, filmStock, iso,
                 skinDetail, history, compareMode, zoomScale, isKeyReady, store,
                 now, activating, deleting>>
  /\ UNCHANGED <<fixedVars, mount>>

\* the continuation after the save putting the new record last ([...prev, newEntry])
saveHistoryItemResolvesAppends(i) ==
  /\ i \in DOMAIN runs
  /\ runs[i].pc = "saveHistoryItem"
  /\ store' = saveHistoryItem(store, runs[i].entry)
  /\ history' = Append(history, runs[i].entry)
  /\ processingState' = Idle
  /\ zoomScale' = ZOOM_MIN
  /\ isKeyReady' = TRUE
  /\ runs' = RemoveAt(runs, i)
  /\ UNCHANGED <<originalBase64, processedUrl, imageSize, aspectRatio, filmStock,
                 iso, skinDetail, compareMode, showKeyModal, sessionFlag, now,
                 activating, deleting>>
  /\ UNCHANGED <<fixedVars, mount>>

\* saveHistoryItem resolves for invocation i (l. 246-249)
saveHistoryItemResolves(i) ==
  /\ i \in DOMAIN runs
  /\ runs[i].pc = "saveHistoryItem"
  /\ store' = saveHistoryItem(store, runs[i].entry)
  /\ history' = <<runs[i].entry>> \o history
  /\ processingState' = Idle
  /\ zoomScale' = ZOOM_MIN
  /\ isKeyReady' = TRUE
  /\ runs' = RemoveAt(runs, i)
  /\ UNCHANGED <<originalBase64, processedUrl, imageSize, aspectRatio, filmStock,
                 iso, skinDetail, compareMode, showKeyModal, sessionFlag, now,
                 activating, deleting>>
  /\ UNCHANGED <<fixedVars, mount>>

\* startProcessing putting the record in the list before it awaits the save
\* (an optimistic insert), the save then rejecting
saveHistoryItemRejectsAfterInsert(i, msg) ==
  /\ i \in DOMAIN runs
  /\ runs[i].pc = "saveHistoryItem"
  /\ startProcessingCatch(i, msg)
  /\ history' = <<runs[i].entry>> \o history
  /\ UNCHANGED <<originalBase64, processedUrl, imageSize, aspectRatio, filmStock,
                 iso, skinDetail, compareMode, zoomScale, isKeyReady,
                 store, now, activating, deleting>>
  /\ UNCHANGED <<fixedVars, mount>>

\* saveHistoryItem rejects for invocation i with an error whose message is msg
saveHistoryItemRejects(i, msg) ==
  /\ i \in DOMAIN runs
  /\ runs[i].pc = "saveHistoryItem"
  /\ startProcessingCatch(i, msg)
  /\ UNCHANGED <<originalBase64, processedUrl, imageSize, aspectRatio, filmStock,
                 iso, skinDetail, history, compareMode, zoomScale, isKeyReady,
                 store, now, activating, deleting>>
  /\ UNCHANGED <<fixedVars, mount>>


(***************************************************************************)
(* The history grid (l. 687-720)                                           *)
(***************************************************************************)
\* the click on the k-th record of the grid (l. 690-700)
historyItemClick(k) ==
  /\ k \in DOMAIN history
  /\ LET item == history[k] IN
     /\ originalBase64' = item.originalUrl
     /\ processedUrl' = item.processedUrl
     /\ aspectRatio' = item.aspectRatio
     /\ imageSize' = item.size
     /\ filmStock' = item.filmStock
     /\ iso' = item.iso
     /\ skinDetail' = (IF item.skinDetail # 0 THEN item.skinDetail ELSE 50)
     /\ zoomScale' = ZOOM_MIN
  /\ UNCHANGED <<processingState, history, compareMode, isKeyReady, showKeyModal,
                 sessionFlag, store, now, runs, activating, deleting>>
  /\ UNCHANGED <<fixedVars, mount>>

\* toggleSelection without e.stopPropagation(): the click reaches the card,
\* whose handler loads the record
toggleSelectionPropagates(id) ==
  /\ id \in Ids(history)
  /\ history' = [k \in DOMAIN history |->
                   IF history[k].id = id
                     THEN [history[k] EXCEPT !.selected = ~@]
                     ELSE history[k]]
  /\ LET item == history[CHOOSE k \in DOMAIN history : history[k].id = id] IN
     /\ originalBase64' = item.originalUrl
     /\ processedUrl' = item.processedUrl
     /\ aspectRatio' = item.aspectRatio
     /\ imageSize' = item.size
     /\ filmStock' = item.filmStock
     /\ iso' = item.iso
     /\ skinDetail' = (IF item.skinDetail # 0 THEN item.skinDetail ELSE 50)
     /\ zoomScale' = ZOOM_MIN
  /\ UNCHANGED <<processingState, compareMode, isKeyReady, showKeyModal,
                 sessionFlag, store, now, runs, activating, deleting>>
  /\ UNCHANGED <<fixedVars, mount>>

\* toggleSelection stamping the record it flips with the current time
toggleSelectionStamps(id) ==
  /\ id \in Ids(history)
  /\ history' = [k \in DOMAIN history |->
                   IF history[k].id = id
                     THEN [history[k] EXCEPT !.selected = ~@, !.timestamp = now]
                     ELSE history[k]]
  /\ UNCHANGED <<originalBase64, processedUrl, processingState, imageSize,
                 aspectRatio, filmStock, iso, skinDetail, compareMode, zoomScale,
                 isKeyReady, showKeyModal, sessionFlag, store, now, runs,
                 activating, deleting>>
  /\ UNCHANGED <<fixedVars, mount>>

\* toggleSelection (l. 261-264)
toggleSelection(id) ==
  /\ id \in Ids(history)
  /\ history' = [k \in DOMAIN history |->
                   IF history[k].id = id
                     THEN [history[k] EXCEPT !.selected = ~@]
                     ELSE history[k]]
  /\ UNCHANGED <<originalBase64, processedUrl, processingState, imageSize,
                 aspectRatio, filmStock, iso, skinDetail, compareMode, zoomScale,
                 isKeyReady, showKeyModal, sessionFlag, store, now, runs,
                 activating, deleting>>
  /\ UNCHANGED <<fixedVars, mount>>

\* deleteHistoryItem (l. 266-270): the click, up to the await
deleteHistoryItem(id) ==
  /\ id \in Ids(history)
  /\ id \notin deleting
  /\ deleting' = deleting \cup {id}
  /\ UNCHANGED <<originalBase64, processedUrl, processingState, imageSize,
                 aspectRatio, filmStock, iso, skinDetail, history, compareMode,
                 zoomScale, isKeyReady, showKeyModal, sessionFlag, store, now,
                 runs, activating>>
  /\ UNCHANGED <<fixedVars, mount>>

\* the continuation of deleteHistoryItem removing the first record of that id
\* (a splice at findIndex) instead of filtering
deleteHistoryItemResolvesFirstOnly(id) ==
  /\ id \in deleting
  /\ store' = deleteHistoryItemFromDB(store, id)
  /\ history' =
       (IF id \in Ids(history)
          THEN RemoveAt(history, CHOOSE k \in DOMAIN history :
                                   /\ history[k].id = id
                                   /\ \A j \in 1..(k - 1) : history[j].id # id)
          ELSE history)
  /\ deleting' = deleting \ {id}
  /\ UNCHANGED <<originalBase64, processedUrl, processingState, imageSize,
                 aspectRatio, filmStock, iso, skinDetail, compareMode, zoomScale,
                 isKeyReady, showKeyModal, sessionFlag, now, runs, activating>>
  /\ UNCHANGED <<fixedVars, mount>>

\* deleteHistoryItemFromDB resolves
deleteHistoryItemResolves(id) ==
  /\ id \in deleting
  /\ store' = deleteHistoryItemFromDB(store, id)
  /\ history' = Filter(history, id)
  /\ deleting' = deleting \ {id}
  /\ UNCHANGED <<originalBase64, processedUrl, processingState, imageSize,
                 aspectRatio, filmStock, iso, skinDetail, compareMode, zoomScale,
                 isKeyReady, showKeyModal, sessionFlag, now, runs, activating>>
  /\ UNCHANGED <<fixedVars, mount>>

\* deleteHistoryItemFromDB rejects: the handler ends at the await
deleteHistoryItemRejects(id) ==
  /\ id \in deleting
  /\ deleting' = deleting \ {id}
  /\ UNCHANGED <<originalBase64, processedUrl, processingState, imageSize,
                 aspectRatio, filmStock, iso, skinDetail, history, compareMode,
                 zoomScale, isKeyReady, showKeyModal, sessionFlag, store, now,
                 runs, activating>>
  /\ UNCHANGED <<fixedVars, mount>>

(***************************************************************************)
(* Comparison of selected records (l. 524-550, 670-678)                    *)
(***************************************************************************)
AnySelected == \E k \in DOMAIN history : history[k].selected

\* the "Compare Selected" button
toggleCompareMode ==
  /\ AnySelected
  /\ compareMode' = ~compareMode
  /\ UNCHANGED <<originalBase64, processedUrl, processingState, imageSize,
                 aspectRatio, filmStock, iso, skinDetail, history, zoomScale,
                 isKeyReady, showKeyModal, sessionFlag, store, now, runs,
                 activating, deleting>>
  /\ UNCHANGED <<fixedVars, mount>>

\* the button that closes the stack comparison
closeCompare ==
  /\ MainView = "compare"
  /\ compareMode' = FALSE
  /\ UNCHANGED <<originalBase64, processedUrl, processingState, imageSize,
                 aspectRatio, filmStock, iso, skinDetail, history, zoomScale,
                 isKeyReady, showKeyModal, sessionFlag, store, now, runs,
                 activating, deleting>>
  /\ UNCHANGED <<fixedVars, mount>>

(***************************************************************************)
(* The controls of the comparison view and of the error panel              *)
(***************************************************************************)
\* handleZoom clamping at 0.5 below instead of 1
handleZoomLowFloor(delta) ==
  /\ MainView = "comparison"
  /\ zoomScale' = Min(Max(zoomScale + delta, ZOOM_MIN - ZOOM_STEP), ZOOM_MAX)
  /\ UNCHANGED <<originalBase64, processedUrl, processingState, imageSize,
                 aspectRatio, filmStock, iso, skinDetail, history, compareMode,
                 isKeyReady, showKeyModal, sessionFlag, store, now, runs,
                 activating, deleting>>
  /\ UNCHANGED <<fixedVars, mount>>

\* handleZoom (l. 272-274), from the two zoom buttons
handleZoom(delta) ==
  /\ MainView = "comparison"
  /\ zoomScale' = Min(Max(zoomScale + delta, ZOOM_MIN), ZOOM_MAX)
  /\ UNCHANGED <<originalBase64, processedUrl, processingState, imageSize,
                 aspectRatio, filmStock, iso, skinDetail, history, compareMode,
                 isKeyReady, showKeyModal, sessionFlag, store, now, runs,
                 activating, deleting>>
  /\ UNCHANGED <<fixedVars, mount>>

\* the reset button between the zoom buttons (l. 577)
resetZoom ==
  /\ MainView = "comparison"
  /\ zoomScale' = ZOOM_MIN
  /\ UNCHANGED <<originalBase64, processedUrl, processingState, imageSize,
                 aspectRatio, filmStock, iso, skinDetail, history, compareMode,
                 isKeyReady, showKeyModal, sessionFlag, store, now, runs,
                 activating, deleting>>
  /\ UNCHANGED <<fixedVars, mount>>

\* "New Negative" (l. 609)
newNegative ==
  /\ MainView = "comparison"
  /\ processedUrl' = NoUrl
  /\ zoomScale' = ZOOM_MIN
  /\ UNCHANGED <<originalBase64, processingState, imageSize, aspectRatio,
                 filmStock, iso, skinDetail, history, compareMode, isKeyReady,
                 showKeyModal, sessionFlag, store, now, runs, activating,
                 deleting>>
  /\ UNCHANGED <<fixedVars, mount>>

\* "Restart Lab" (l. 647)
restartLab ==
  /\ MainView = "error"
  /\ processingState' = Idle
  /\ UNCHANGED <<originalBase64, processedUrl, imageSize, aspectRatio, filmStock,
                 iso, skinDetail, history, compareMode, zoomScale, isKeyReady,
                 showKeyModal, sessionFlag, store, now, runs, activating,
                 deleting>>
  /\ UNCHANGED <<fixedVars, mount>>

(***************************************************************************)
(* The key modal (l. 198-203, 294-335, 374-380)                            *)
(***************************************************************************)
\* the header's "Activate Session" / "Update Key" button
openKeyModal ==
  /\ showKeyModal' = TRUE
  /\ UNCHANGED <<originalBase64, processedUrl, processingState, imageSize,
                 aspectRatio, filmStock, iso, skinDetail, history, compareMode,
                 zoomScale, isKeyReady, sessionFlag, store, now, runs,
                 activating, deleting>>
  /\ UNCHANGED <<fixedVars, mount>>

\* the modal's second button
dismissKeyModal ==
  /\ showKeyModal
  /\ showKeyModal' = FALSE
  /\ UNCHANGED <<originalBase64, processedUrl, processingState, imageSize,
                 aspectRatio, filmStock, iso, skinDetail, history, compareMode,
                 zoomScale, isKeyReady, sessionFlag, store, now, runs,
                 activating, deleting>>
  /\ UNCHANGED <<fixedVars, mount>>

\* handleKeyActivation: the click on "Select API Key", up to the await
handleKeyActivation ==
  /\ showKeyModal
  /\ ~activating
  /\ activating' = TRUE
  /\ UNCHANGED <<originalBase64, processedUrl, processingState, imageSize,
                 aspectRatio, filmStock, iso, skinDetail, history, compareMode,
                 zoomScale, isKeyReady, showKeyModal, sessionFlag, store, now,
                 runs, deleting>>
  /\ UNCHANGED <<fixedVars, mount>>

\* openSelectKey resolves (l. 200-202)
openSelectKeyResolves ==
  /\ activating
  /\ sessionFlag' = TRUE
  /\ isKeyReady' = TRUE
  /\ showKeyModal' = FALSE
  /\ activating' = FALSE
  /\ UNCHANGED <<originalBase64, processedUrl, processingState, imageSize,
                 aspectRatio, filmStock, iso, skinDetail, history, compareMode,
                 zoomScale, store, now, runs, deleting>>
  /\ UNCHANGED <<fixedVars, mount>>

\* openSelectKey rejects: the handler ends at the await
openSelectKeyRejects ==
  /\ activating
  /\ activating' = FALSE
  /\ UNCHANGED <<originalBase64, processedUrl, processingState, imageSize,
                 aspectRatio, filmStock, iso, skinDetail, history, compareMode,
                 zoomScale, isKeyReady, showKeyModal, sessionFlag, store, now,
                 runs, deleting>>
  /\ UNCHANGED <<fixedVars, mount>>

(***************************************************************************)
(* The settings of the side panel (l. 430, 456, 476, 500)                  *)
(***************************************************************************)
setFilmStock(stock) ==
  /\ filmStock' = stock
  /\ UNCHANGED <<originalBase64, processedUrl, processingState, imageSize,
                 aspectRatio, iso, skinDetail, history, compareMode, zoomScale,
                 isKeyReady, showKeyModal, sessionFlag, store, now, runs,
                 activating, deleting>>
  /\ UNCHANGED <<fixedVars, mount>>

setIso(val) ==
  /\ iso' = val
  /\ UNCHANGED <<originalBase64, processedUrl, processingState, imageSize,
                 aspectRatio, filmStock, skinDetail, history, compareMode,
                 zoomScale, isKeyReady, showKeyModal, sessionFlag, store, now,
                 runs, activating, deleting>>
  /\ UNCHANGED <<fixedVars, mount>>

setSkinDetail(val) ==
  /\ skinDetail' = val
  /\ UNCHANGED <<originalBase64, processedUrl, processingState, imageSize,
                 aspectRatio, filmStock, iso, history, compareMode, zoomScale,
                 isKeyReady, showKeyModal, sessionFlag, store, now, runs,
                 activating, deleting>>
  /\ UNCHANGED <<fixedVars, mount>>

setImageSize(size) ==
  /\ imageSize' = size
  /\ UNCHANGED <<originalBase64, processedUrl, processingState, aspectRatio,
                 filmStock, iso, skinDetail, history, compareMode, zoomScale,
                 isKeyReady, showKeyModal, sessionFlag, store, now, runs,
                 activating, deleting>>
  /\ UNCHANGED <<fixedVars, mount>>

\* the clock advances
Tick ==
  /\ now < MaxClock
  /\ now' = now + 1
  /\ UNCHANGED <<originalBase64, processedUrl, processingState, imageSize,
                 aspectRatio, filmStock, iso, skinDetail, history, compareMode,
                 zoomScale, isKeyReady, showKeyModal, sessionFlag, store, runs,
                 activating, deleting>>
  /\ UNCHANGED <<fixedVars, mount>>

(***************************************************************************)
(* The mount effect (l. 130-147): checkKeyStatus and loadHistory, each      *)
(* called once, each with one await.  mount holds where each of them is,    *)
(* the flag checkKeyStatus read before its await, and the rows getHistory   *)
(* has read.                                                                *)
(***************************************************************************)
\* dbService.getHistory: all the rows of the table, in the table's order
getHistory(table) == table

\* both functions have returned
Mounted ==
  [checkKeyStatus |-> "done", sessionActive |-> FALSE,
   loadHistory |-> "done", data |-> <<>>]

\* both functions are at their await: checkKeyStatus has read the session flag
Mounting(flag) ==
  [checkKeyStatus |-> "hasSelectedApiKey", sessionActive |-> flag,
   loadHistory |-> "getHistory", data |-> <<>>]

\* hasSelectedApiKey settles for checkKeyStatus (l. 133-134); a rejection ends
\* checkKeyStatus at the await
checkKeyStatusSettles(hasKey) ==
  /\ mount.checkKeyStatus = "hasSelectedApiKey"
  /\ mount' = [mount EXCEPT !.checkKeyStatus = "done"]
  /\ IF hasKey = "reject"
       THEN UNCHANGED isKeyReady
       ELSE isKeyReady' = (mount.sessionActive /\ hasKey = "true")
  /\ UNCHANGED <<originalBase64, processedUrl, processingState, imageSize,
                 aspectRatio, filmStock, iso, skinDetail, history, compareMode,
                 zoomScale, showKeyModal, sessionFlag, store, now, runs,
                 activating, deleting>>
  /\ UNCHANGED fixedVars

\* the store reads the table for getHistory
getHistoryReads ==
  /\ mount.loadHistory = "getHistory"
  /\ mount' = [mount EXCEPT !.loadHistory = "read", !.data = getHistory(store)]
  /\ UNCHANGED appVars
  /\ UNCHANGED fixedVars

\* data.map(item => ({ ...item, selected: false }))
Unselected(data) == [k \in DOMAIN data |-> [data[k] EXCEPT !.selected = FALSE]]

\* getHistory resolves with the rows read (l. 140-141)
getHistoryResolves ==
  /\ mount.loadHistory = "read"
  /\ history' = Unselected(mount.data)
  /\ mount' = [mount EXCEPT !.loadHistory = "done", !.data = <<>>]
  /\ UNCHANGED <<originalBase64, processedUrl, processingState, imageSize,
                 aspectRatio, filmStock, iso, skinDetail, compareMode, zoomScale,
                 isKeyReady, showKeyModal, sessionFlag, store, now, runs,
                 activating, deleting>>
  /\ UNCHANGED fixedVars

\* a catch block of loadHistory that reports the failure as a processing error
loadHistoryCatchWithError ==
  /\ processingState' = Failed(<<"Failed to load history from IndexedDB">>)
  /\ UNCHANGED history

\* what the catch block of loadHistory does to the state (l. 142-144): it logs
loadHistoryCatch == UNCHANGED <<history, processingState>>

\* getHistory rejects, before or after the store has read the table
getHistoryRejects ==
  /\ mount.loadHistory \in {"getHistory", "read"}
  /\ loadHistoryCatch
  /\ mount' = [mount EXCEPT !.loadHistory = "done", !.data = <<>>]
  /\ UNCHANGED <<originalBase64, processedUrl, imageSize, aspectRatio, filmStock,
                 iso, skinDetail, compareMode, zoomScale, isKeyReady,
                 showKeyModal, sessionFlag, store, now, runs, activating,
                 deleting>>
  /\ UNCHANGED fixedVars

(***************************************************************************)
(* ComparisonSlider (src/components/ComparisonSlider.tsx), which App       *)
(* renders in the comparison view with its own zoomScale as the prop       *)
(* (part_000:594-599).  slider holds the component's state, the ref        *)
(* lastMousePos, and deps: the zoomScale for which the pan-reset effect    *)
(* last ran (React runs the effect when zoomScale differs from it).        *)
(***************************************************************************)
MaxPan == 2          \* how far the pan may be dragged from the centre

NoDeps == 0          \* the effect has not run yet

ZeroPan == [x |-> 0, y |-> 0]

\* the useState and useRef initial values (l. 12-19)
InitialSlider ==
  [position |-> 50, isDraggingSlider |-> FALSE, pan |-> ZeroPan,
   isPanning |-> FALSE, lastMousePos |-> [x |-> 0, y |-> 0], deps |-> NoDeps]

\* containerRef.current.getBoundingClientRect()
Container == [left |-> 0, width |-> 2]

\* where the pointer may be: inside the container or just outside it (a touch
\* keeps reporting to the element it started on)
Pointers ==
  [x : (Container.left - 1)..(Container.left + Container.width + 1), y : 0..1]

\* what a handler of ComparisonSlider leaves alone
sliderFrame == UNCHANGED <<appVars, piVars, promptOut, parsed, printLimit, mount>>

\* no effect is waiting to run: the effect has run for the current zoomScale
Settled == slider.deps = zoomScale

\* the effect on [zoomScale] (l. 37-41), run after the render that brought a
\* new zoomScale
panResetEffect ==
  /\ MainView = "comparison"
  /\ slider.deps # zoomScale
  /\ slider' = [slider EXCEPT !.deps = zoomScale,
                              !.pan = IF zoomScale = ZOOM_MIN THEN ZeroPan ELSE @]
  /\ sliderFrame

\* handleMouseMove panning whenever isPanning is set, zoomed or not
handleMouseMoveAnyZoom(p) ==
  /\ MainView = "comparison"
  /\ IF slider.isDraggingSlider
       THEN slider' = [slider EXCEPT !.position =
              Min(Max(((p.x - Container.left) * 100) \div Container.width, 0), 100)]
       ELSE IF slider.isPanning
         THEN LET dx == p.x - slider.lastMousePos.x
                  dy == p.y - slider.lastMousePos.y
              IN /\ Abs(slider.pan.x + dx) <= MaxPan
                 /\ Abs(slider.pan.y + dy) <= MaxPan
                 /\ slider' = [slider EXCEPT !.pan = [x |-> @.x + dx, y |-> @.y + dy],
                                             !.lastMousePos = p]
         ELSE UNCHANGED slider
  /\ sliderFrame

\* handleMouseMove (l. 43-64) for a pointer at p
handleMouseMove(p) ==
  /\ MainView = "comparison"
  /\ IF slider.isDraggingSlider
       THEN slider' = [slider EXCEPT !.position =
              Min(Max(((p.x - Container.left) * 100) \div Container.width, 0), 100)]
       ELSE IF slider.isPanning /\ zoomScale > ZOOM_MIN
         THEN LET dx == p.x - slider.lastMousePos.x
                  dy == p.y - slider.lastMousePos.y
              IN /\ Abs(slider.pan.x + dx) <= MaxPan
                 /\ Abs(slider.pan.y + dy) <= MaxPan
                 /\ slider' = [slider EXCEPT !.pan = [x |-> @.x + dx, y |-> @.y + dy],
                                             !.lastMousePos = p]
         ELSE UNCHANGED slider
  /\ sliderFrame

\* startDraggingSlider (l. 66-70): the press on the handle, which does not reach
\* the container
startDraggingSlider ==
  /\ MainView = "comparison"
  /\ slider' = [slider EXCEPT !.isDraggingSlider = TRUE]
  /\ sliderFrame

\* startPanning (l. 72-78): the press on the container at p
startPanning(p) ==
  /\ MainView = "comparison"
  /\ IF zoomScale <= ZOOM_MIN \/ slider.isDraggingSlider
       THEN UNCHANGED slider
       ELSE slider' = [slider EXCEPT !.isPanning = TRUE, !.lastMousePos = p]
  /\ sliderFrame

\* stopAll (l. 80-83): the release, or the pointer leaving
stopAll ==
  /\ MainView = "comparison"
  /\ slider' = [slider EXCEPT !.isDraggingSlider = FALSE, !.isPanning = FALSE]
  /\ sliderFrame

(***************************************************************************)
(* The application: the state after construction (l. 105-117) and its      *)
(* steps                                                                   *)
(***************************************************************************)
NoApi == ApiRejects(<<>>, NoStatus)
NoResult == [ok |-> FALSE, url |-> NoUrl, message |-> <<>>]
NoPrompt == <<>>
NoParse == [type |-> "none"]

\* the useState initial values (l. 105-117), no handler pending
InitReact ==
  /\ originalBase64 = NoUrl
  /\ processedUrl = NoUrl
  /\ processingState = Idle
  /\ imageSize = "1K"
  /\ aspectRatio = "1:1"
  /\ filmStock = "Kodak Portra 400"
  /\ iso = 400
  /\ skinDetail = 50
  /\ history = <<>>
  /\ compareMode = FALSE
  /\ zoomScale = ZOOM_MIN
  /\ isKeyReady = FALSE
  /\ showKeyModal = FALSE
  /\ runs = <<>>
  /\ activating = FALSE
  /\ deleting = {}

\* the application over an empty store, its mount effect over: the load brought
\* nothing and the key check found no key to report
InitApp ==
  /\ InitReact
  /\ sessionFlag \in BOOLEAN
  /\ store = <<>>
  /\ now = 0
  /\ mount = Mounted

Init ==
  /\ InitApp
  /\ printLimit = MaxHistory
  /\ apiIn = NoApi
  /\ piOut = NoResult
  /\ promptOut = NoPrompt
  /\ parsed = NoParse
  /\ slider = InitialSlider

Develop ==
  \/ \E file \in Files : handleFileUpload(file)
  \/ startProcessing
  \/ \E i \in DOMAIN runs, hasKey \in {"true", "false", "reject"} :
       hasSelectedApiKeySettles(i, hasKey)
  \/ \E i \in DOMAIN runs :
       \E api \in ApiBehaviours(runs[i].req.base64Data) : processImageSettles(i, api)
  \/ \E i \in DOMAIN runs : saveHistoryItemResolves(i)
  \/ \E i \in DOMAIN runs, msg \in StoreErrors : saveHistoryItemRejects(i, msg)
  \/ restartLab
  \/ newNegative
  \/ \E k \in DOMAIN history : historyItemClick(k)

KeyModal ==
  \/ openKeyModal
  \/ dismissKeyModal
  \/ handleKeyActivation
  \/ openSelectKeyResolves
  \/ openSelectKeyRejects

Settings ==
  \/ \E stock \in FilmStockChoices : setFilmStock(stock)
  \/ \E val \in IsoChoices : setIso(val)
  \/ \E val \in SkinDetailChoices : setSkinDetail(val)
  \/ \E size \in ImageSizeChoices : setImageSize(size)

Contact ==
  \/ \E id \in Ids(history) : toggleSelection(id)
  \/ \E id \in Ids(history) : deleteHistoryItem(id)
  \/ \E id \in deleting : deleteHistoryItemResolves(id)
  \/ \E id \in deleting : deleteHistoryItemRejects(id)
  \/ toggleCompareMode
  \/ closeCompare

Zoom ==
  \/ \E delta \in {ZOOM_STEP, -ZOOM_STEP} : handleZoom(delta)
  \/ resetZoom

\* every step but those of the settings, which stay as constructed
Next ==
  \/ Develop
  \/ KeyModal
  \/ Contact
  \/ Zoom
  \/ Tick

Spec == Init /\ [][Next]_vars


(***************************************************************************)
(* The application with the side panel's settings in play.  Every record   *)
(* and every pending invocation carries its own copy of the settings, so   *)
(* this specification keeps at most MaxSettingsPrints of them at a time.   *)
(***************************************************************************)
MaxSettingsPrints == 1

InitSettings ==
  /\ InitApp
  /\ printLimit = MaxSettingsPrints
  /\ apiIn = NoApi
  /\ piOut = NoResult
  /\ promptOut = NoPrompt
  /\ parsed = NoParse
  /\ slider = InitialSlider

SettingsNext ==
  \/ Develop
  \/ Settings

SpecSettings == InitSettings /\ [][SettingsNext]_vars

(***************************************************************************)
(* The application opened over the prints of earlier sessions: the mount   *)
(* effect is under way, the table holds up to MaxStored records, and there *)
(* is room for MaxNewPrints more.                                          *)
(***************************************************************************)
MaxStored == 1       \* records the table holds when the application opens
MaxNewPrints == 1    \* prints the session may add to them

\* the render in which the k-th earlier print was submitted
PastRender(k) ==
  LET file == IF k % 2 = 1
                THEN [mime |-> "image/jpeg", data |-> "BBBB", width |-> 768, height |-> 1024]
                ELSE [mime |-> "image/png", data |-> "AAAA", width |-> 1024, height |-> 1024]
  IN [originalBase64 |-> DataUrl(file.mime, file.data),
      imageSize |-> IF k % 2 = 1 THEN "2K" ELSE "1K",
      aspectRatio |-> calculateClosestAspectRatio(file.width, file.height),
      filmStock |-> IF k % 2 = 1 THEN "Fujifilm Velvia 50" ELSE "Kodak Portra 400",
      iso |-> IF k % 2 = 1 THEN 800 ELSE 400,
      skinDetail |-> IF k % 2 = 1 THEN 75 ELSE 50]

\* the k-th earlier print, as startProcessing made it at an earlier clock reading
PastPrint(k) ==
  NewEntry(PastRender(k), buildFinalPrompt(PastRender(k)),
           PngDataUrl(Developed(Base64DataOf(PastRender(k).originalBase64))),
           k - MaxStored - 1)

StoredTables == { [k \in 1..n |-> PastPrint(k)] : n \in 0..MaxStored }

InitContact ==
  /\ InitReact
  /\ sessionFlag \in BOOLEAN
  /\ store \in StoredTables
  /\ now = 0
  /\ mount = Mounting(sessionFlag)
  /\ printLimit = MaxStored + MaxNewPrints
  /\ apiIn = NoApi
  /\ piOut = NoResult
  /\ promptOut = NoPrompt
  /\ parsed = NoParse
  /\ slider = InitialSlider

LoadHistory ==
  \/ getHistoryReads
  \/ getHistoryResolves
  \/ getHistoryRejects

Mount ==
  \/ \E hasKey \in {"true", "false", "reject"} : checkKeyStatusSettles(hasKey)
  \/ LoadHistory

ContactNext ==
  \/ LoadHistory
  \/ Develop
  \/ Contact

SpecContact == InitContact /\ [][ContactNext]_vars

(***************************************************************************)
(* The application opened over an empty table, with the mount effect under *)
(* way and the key modal in play: what the session indicator goes through. *)
(***************************************************************************)
MaxSessionPrints == 1   \* prints the session may hold, pending or made

InitSession ==
  /\ InitReact
  /\ sessionFlag \in BOOLEAN
  /\ store = <<>>
  /\ now = 0
  /\ mount = Mounting(sessionFlag)
  /\ printLimit = MaxSessionPrints
  /\ apiIn = NoApi
  /\ piOut = NoResult
  /\ promptOut = NoPrompt
  /\ parsed = NoParse
  /\ slider = InitialSlider

SessionNext ==
  \/ Mount
  \/ Develop
  \/ KeyModal

SpecSession == InitSession /\ [][SessionNext]_vars

(***************************************************************************)
(* The comparison view taken alone: the print of an earlier session has    *)
(* been loaded and clicked, so ComparisonSlider is mounted; the user works *)
(* the zoom buttons, the slider's handle and the pointer.                  *)
(***************************************************************************)
InitSliderView ==
  /\ originalBase64 = PastPrint(1).originalUrl
  /\ processedUrl = PastPrint(1).processedUrl
  /\ processingState = Idle
  /\ imageSize = PastPrint(1).size
  /\ aspectRatio = PastPrint(1).aspectRatio
  /\ filmStock = PastPrint(1).filmStock
  /\ iso = PastPrint(1).iso
  /\ skinDetail = PastPrint(1).skinDetail
  /\ history = <<PastPrint(1)>>
  /\ compareMode = FALSE
  /\ zoomScale = ZOOM_MIN
  /\ isKeyReady = FALSE
  /\ showKeyModal = FALSE
  /\ runs = <<>>
  /\ activating = FALSE
  /\ deleting = {}
  /\ sessionFlag = FALSE
  /\ store = <<PastPrint(1)>>
  /\ now = 0
  /\ mount = Mounted
  /\ printLimit = 1
  /\ apiIn = NoApi
  /\ piOut = NoResult
  /\ promptOut = NoPrompt
  /\ parsed = NoParse
  /\ slider = InitialSlider

Pointer ==
  \/ \E p \in Pointers : handleMouseMove(p)
  \/ startDraggingSlider
  \/ \E p \in Pointers : startPanning(p)
  \/ stopAll

\* React runs the effects of a render before it renders again: a step of App
\* that brings a new zoomScale finds the slider settled
SliderNext ==
  \/ Settled /\ Zoom
  \/ Settled /\ \E k \in DOMAIN history : historyItemClick(k)
  \/ panResetEffect
  \/ Pointer

SpecSlider == InitSliderView /\ [][SliderNext]_vars

(***************************************************************************)
(* buildFinalPrompt taken alone: the side panel holds any film stock, any  *)
(* ISO and any position of the skin-detail slider, and buildFinalPrompt is *)
(* applied to that render.                                                 *)
(***************************************************************************)
\* the values of the range input (min 0, max 100, step 5; l. 450-459)
SliderValues == {5 * k : k \in 0..20}

InitPrompt ==
  /\ originalBase64 = NoUrl
  /\ processedUrl = NoUrl
  /\ processingState = Idle
  /\ imageSize = "1K"
  /\ aspectRatio = "1:1"
  /\ filmStock \in FilmStock
  /\ iso \in ISOValues
  /\ skinDetail \in SliderValues
  /\ history = <<>>
  /\ compareMode = FALSE
  /\ zoomScale = ZOOM_MIN
  /\ isKeyReady = FALSE
  /\ showKeyModal = FALSE
  /\ runs = <<>>
  /\ activating = FALSE
  /\ deleting = {}
  /\ sessionFlag = FALSE
  /\ store = <<>>
  /\ now = 0
  /\ mount = Mounted
  /\ printLimit = 0
  /\ apiIn = NoApi
  /\ piOut = NoResult
  /\ promptOut = NoPrompt
  /\ parsed = NoParse
  /\ slider = InitialSlider

applyBuildFinalPrompt ==
  /\ promptOut = NoPrompt
  /\ promptOut' = buildFinalPrompt(Render)
  /\ UNCHANGED <<appVars, piVars, parsed, printLimit, slider, mount>>

SpecPrompt == InitPrompt /\ [][applyBuildFinalPrompt]_vars

(***************************************************************************)
(* processImage taken alone: generateContent behaves as apiIn, and         *)
(* processImage is applied to it.                                          *)
(***************************************************************************)
MaxTextLen == 2      \* tokens in a part's text
MaxParts == 2        \* parts in a candidate's content
MaxMessageLen == 2   \* tokens in the message of an error the API call raises

SeqsUpTo(S, n) == UNION {[1..m -> S] : m \in 0..n}

PartTexts == SeqsUpTo({" ", "words"}, MaxTextLen)
PartData == {NoData, "image1", "image2"}
Parts == [inlineData : PartData, text : PartTexts]
FinishReasons == {NoData, "STOP", "SAFETY", "RECITATION", "OTHER"}
Candidates == [finishReason : FinishReasons, parts : SeqsUpTo(Parts, MaxParts)]

\* a second candidate, which processImage never reads
OtherCandidates ==
  { [finishReason |-> "STOP",
     parts |-> << [inlineData |-> "image3", text |-> <<>>] >>],
    [finishReason |-> "SAFETY", parts |-> <<>>] }

\* the responses whose first candidate, if there is one, is among `first`
Responses(first) ==
  { [kind |-> "response", response |-> [candidates |-> cs]] :
      cs \in {<<>>} \cup {<<c>> : c \in first}
               \cup {<<c, d>> : c \in first, d \in OtherCandidates} }

ErrorStatuses == {NoStatus, 403, 404, 429, 500}

ApiErrors ==
  { ApiRejects(msg, status) :
      msg \in SeqsUpTo({"words", T403, TNotFound, T429, "REJECTION:"}, MaxMessageLen),
      status \in ErrorStatuses }

\* the text with which the model declines: words, white space, and the pieces
\* of text that the catch block and parseErrorMessage look for
MaxRefusalLen == 3   \* tokens in a refusal

RefusalTokens == {" ", "words", T403, T429, TNotFound, "WHY:", "REMEDY:"}

Refusals ==
  { [kind |-> "response",
     response |-> [candidates |->
       << [finishReason |-> "STOP",
           parts |-> << [inlineData |-> NoData, text |-> text] >>] >>]] :
      text \in SeqsUpTo(RefusalTokens, MaxRefusalLen) }

InitProcessImage ==
  /\ InitApp
  /\ sessionFlag = FALSE
  /\ printLimit = 0
  /\ apiIn \in Responses(Candidates) \cup ApiErrors \cup Refusals
  /\ piOut = NoResult
  /\ promptOut = NoPrompt
  /\ parsed = NoParse
  /\ slider = InitialSlider

applyProcessImage ==
  /\ piOut = NoResult
  /\ piOut' = ProcessImage(apiIn)
  /\ UNCHANGED <<apiIn, appVars, promptOut, parsed, printLimit, slider, mount>>

\* the error panel parses the message of the error processImage threw
\* (l. 257, 626)
applyParseErrorMessage ==
  /\ piOut # NoResult
  /\ ~piOut.ok
  /\ parsed = NoParse
  /\ parsed' = parseErrorMessage(piOut.message)
  /\ UNCHANGED <<appVars, piVars, promptOut, printLimit, slider, mount>>

ProcessImageNext ==
  \/ applyProcessImage
  \/ applyParseErrorMessage

SpecProcessImage == InitProcessImage /\ [][ProcessImageNext]_vars


(***************************************************************************)
(* Claims about the development flow (specification Spec)                  *)
(***************************************************************************)
InFlight == {i \in DOMAIN runs : runs[i].pc = "processImage"}

\* C1: at most one processImage request is in flight at any moment (the submit
\* control stays disabled from a submit until its request has settled).
C1_NoDoubleSubmit == Cardinality(InFlight) <= 1

\* C2: whenever the status is 'error' and compare mode is off, the main view
\* is the error panel.
C2_ErrorIsRendered ==
  (processingState.status = "error" /\ ~compareMode) => MainView = "error"

\* C3: whenever the main view shows the before/after comparison (processedUrl
\* and originalBase64 are both set), processedUrl is the development of exactly
\* that originalBase64.
C3_ComparisonPairsMatch ==
  (MainView = "comparison" /\ processedUrl # NoUrl /\ originalBase64 # NoUrl)
    => processedUrl = PngDataUrl(Developed(Base64DataOf(originalBase64)))

\* C4: an invocation of startProcessing issues at most one processImage call:
\* none before its key check has passed, one from then on, and a failed call
\* ends the invocation (no invocation is left to reissue it).
C4_NoRetry ==
  \A i \in DOMAIN runs :
    /\ runs[i].calls <= 1
    /\ runs[i].pc = "hasSelectedApiKey" => runs[i].calls = 0
    /\ runs[i].pc \in {"processImage", "saveHistoryItem"} => runs[i].calls = 1

\* C4's case: a call has failed, the error is shown and no invocation is left
C4_Witness ==
  /\ processingState.status = "error"
  /\ processingState.message = RATE_LIMIT
  /\ runs = <<>>

\* processImage fails with KEY_RESET_REQUIRED for invocation i in this step
KeyResetStep(i) ==
  \E api \in ApiBehaviours(runs[i].req.base64Data) :
    /\ ~ProcessImage(api).ok
    /\ ProcessImage(api).message = KEY_RESET_REQUIRED
    /\ processImageSettles(i, api)

\* C8: when processImage fails with KEY_RESET_REQUIRED, the step removes the
\* session flag, opens the key modal and sets the status to 'idle' with no
\* message; history and processedUrl keep their values.
C8_SessionReset ==
  [][\A i \in InFlight :
       KeyResetStep(i) =>
         /\ sessionFlag' = FALSE
         /\ showKeyModal' = TRUE
         /\ processingState' = Idle
         /\ history' = history
         /\ processedUrl' = processedUrl]_vars

\* C8's case: the flag was set (the session indicator is on) and a key reset has
\* removed it, with the earlier print still loaded
C8_Witness ==
  /\ ~sessionFlag
  /\ isKeyReady
  /\ showKeyModal
  /\ processingState = Idle
  /\ processedUrl # NoUrl
  /\ history # <<>>


(***************************************************************************)
(* Claims about processImage (specification SpecProcessImage)              *)
(***************************************************************************)
Applied == piOut # NoResult

BlockingReasons == {"SAFETY", "RECITATION", "OTHER"}

FirstCandidate == apiIn.response.candidates[1]

ImageParts(parts) == {k \in DOMAIN parts : parts[k].inlineData # NoData}

\* the response has a candidate, its finish reason does not block, and one of
\* its parts carries inlineData
CarriesImage ==
  /\ apiIn.kind = "response"
  /\ apiIn.response.candidates # <<>>
  /\ FirstCandidate.finishReason \notin BlockingReasons
  /\ ImageParts(FirstCandidate.parts) # {}

FirstImage(parts) ==
  parts[CHOOSE k \in ImageParts(parts) : \A j \in ImageParts(parts) : k <= j].inlineData

\* C5: processImage returns exactly when the response has a candidate whose
\* finish reason is none of SAFETY, RECITATION, OTHER and which has a part with
\* inlineData; it returns the data URL of the first such part; in every other
\* case it throws an error with a message.
C5_ReturnsExactlyOnImage ==
  Applied =>
    /\ piOut.ok <=> CarriesImage
    /\ piOut.ok => piOut.url = PngDataUrl(FirstImage(FirstCandidate.parts))
    /\ ~piOut.ok => piOut.message # <<>>

\* C5's case: an image is returned although a text part comes before it
C5_Witness ==
  /\ Applied
  /\ piOut.ok
  /\ apiIn.kind = "response"
  /\ Len(FirstCandidate.parts) = 2
  /\ FirstCandidate.parts[1].inlineData = NoData
  /\ FirstCandidate.parts[1].text = <<"words">>
  /\ piOut.url = PngDataUrl("image2")

\* the text of the parts, each followed by white space, parts without text left out
JoinTexts(parts) ==
  Concat([k \in DOMAIN parts |->
            IF parts[k].text # <<>> THEN parts[k].text \o <<" ">> ELSE <<>>])

\* C6: a failure decided on the response falls in one category, in this order:
\* no candidates; finish reason SAFETY; RECITATION; OTHER; then, no image part but
\* some text (text that is not only white space), quoted in the message; then the
\* no-image-returned rejection.  A blocking finish reason wins over an image part.
C6_ResponseFailureCategory ==
  (Applied /\ apiIn.kind = "response") =>
    LET cands == apiIn.response.candidates IN
    /\ cands = <<>> => (~piOut.ok /\ piOut.message = REJECT_NO_CANDIDATES)
    /\ cands # <<>> =>
         LET reason == cands[1].finishReason
             quoted == Trim(JoinTexts(cands[1].parts))
         IN
         /\ reason = "SAFETY" => (~piOut.ok /\ piOut.message = REJECT_SAFETY)
         /\ reason = "RECITATION" => (~piOut.ok /\ piOut.message = REJECT_RECITATION)
         /\ reason = "OTHER" => (~piOut.ok /\ piOut.message = REJECT_OTHER)
         /\ (reason \notin BlockingReasons /\ ~piOut.ok) =>
              /\ quoted # <<>> => piOut.message = REJECT_TEXT(quoted)
              /\ quoted = <<>> => piOut.message = REJECT_NO_IMAGE

\* C6's case: the finish reason is SAFETY and the candidate carries an image
C6_Witness ==
  /\ Applied
  /\ apiIn.kind = "response"
  /\ apiIn.response.candidates # <<>>
  /\ FirstCandidate.finishReason = "SAFETY"
  /\ ImageParts(FirstCandidate.parts) # {}
  /\ piOut.message = REJECT_SAFETY

\* the signatures of the failures the API is known to raise
KnownPermissionErrors ==
  { ApiRejects(<<T403, "words">>, 403), ApiRejects(<<"words">>, 403),
    ApiRejects(<<T403>>, NoStatus) }
KnownEntityNotFoundErrors ==
  { ApiRejects(<<TNotFound>>, 404), ApiRejects(<<"words", TNotFound>>, NoStatus) }
KnownQuotaErrors ==
  { ApiRejects(<<T429, "words">>, 429), ApiRejects(<<T429>>, NoStatus) }

\* C7: an exception of the API call that is not a REJECTION falls in one
\* category: '403' in the message or status 403 gives PERMISSION_DENIED; else
\* 'Requested entity was not found.' gives KEY_RESET_REQUIRED; else '429' gives
\* the rate-limit message; else the message itself, or the generic message when
\* it is empty.  The known signatures each land in their own category.
C7_ExceptionCategory ==
  (Applied /\ apiIn.kind = "throw" /\ ~StartsWith(apiIn.message, "REJECTION:")) =>
    LET msg == apiIn.message
        permission == T403 \in Range(msg) \/ apiIn.status = 403
        notFound == TNotFound \in Range(msg)
        quota == T429 \in Range(msg)
    IN
    /\ ~piOut.ok
    /\ permission => piOut.message = PERMISSION_DENIED
    /\ (~permission /\ notFound) => piOut.message = KEY_RESET_REQUIRED
    /\ (~permission /\ ~notFound /\ quota) => piOut.message = RATE_LIMIT
    /\ (~permission /\ ~notFound /\ ~quota /\ msg # <<>>) => piOut.message = msg
    /\ (~permission /\ ~notFound /\ ~quota /\ msg = <<>>) =>
         piOut.message = GENERIC_FAILURE
    /\ apiIn \in KnownPermissionErrors => piOut.message = PERMISSION_DENIED
    /\ apiIn \in KnownEntityNotFoundErrors => piOut.message = KEY_RESET_REQUIRED
    /\ apiIn \in KnownQuotaErrors => piOut.message = RATE_LIMIT

\* C7's case: the precedence decides: an entity-not-found message that also
\* holds '429' lands in KEY_RESET_REQUIRED
C7_Witness ==
  /\ Applied
  /\ apiIn.kind = "throw"
  /\ apiIn.message = <<TNotFound, T429>>
  /\ apiIn.status = 429
  /\ piOut.message = KEY_RESET_REQUIRED

(***************************************************************************)
(* Claims about the settings (specification SpecSettings)                  *)
(***************************************************************************)
\* a render that has the given three settings and nothing else of the state
OnlySettings(skin, stock, isoValue) ==
  [originalBase64 |-> NoUrl, imageSize |-> "1K", aspectRatio |-> "1:1",
   filmStock |-> stock, iso |-> isoValue, skinDetail |-> skin]

Sent == {i \in DOMAIN runs : runs[i].pc \in {"processImage", "saveHistoryItem"}}

\* C9: the prompt startProcessing sends is a function of (skinDetail, filmStock,
\* iso) alone: every prompt sent is the prompt of a render that has the
\* submission's three values and none of its image, size and aspect ratio (so two
\* submissions with the same three values send the same prompt).
C9_PromptDependsOnSettingsOnly ==
  \A i \in Sent :
    runs[i].req.prompt =
      buildFinalPrompt(OnlySettings(runs[i].c.skinDetail, runs[i].c.filmStock,
                                    runs[i].c.iso))

\* C9's case: a request is out whose image, size and ratio are not the defaults
C9_Witness ==
  \E i \in Sent :
    /\ runs[i].req.size = "2K"
    /\ runs[i].req.aspectRatio = "3:4"
    /\ runs[i].req.base64Data = "BBBB"
    /\ runs[i].c.filmStock = "Fujifilm Velvia 50"

\* C10: a record holds what was used to produce it: originalUrl is the image
\* whose bytes were sent, size and aspectRatio are the options sent, prompt is the
\* prompt sent and equals the prompt built from the record's own skinDetail,
\* filmStock and iso; the stored print is the development of the record's
\* originalUrl.
C10_RecordHoldsItsSettings ==
  /\ \A i \in DOMAIN runs : runs[i].pc = "saveHistoryItem" =>
       LET e == runs[i].entry
           req == runs[i].req
       IN /\ Base64DataOf(e.originalUrl) = req.base64Data
          /\ MimeTypeOf(e.originalUrl) = req.mimeType
          /\ e.size = req.size
          /\ e.aspectRatio = req.aspectRatio
          /\ e.prompt = req.prompt
          /\ e.prompt = buildFinalPrompt(OnlySettings(e.skinDetail, e.filmStock, e.iso))
  /\ \A k \in DOMAIN history :
       LET e == history[k] IN
       /\ e.processedUrl = PngDataUrl(Developed(Base64DataOf(e.originalUrl)))
       /\ e.prompt = buildFinalPrompt(OnlySettings(e.skinDetail, e.filmStock, e.iso))

\* C10's case: a record was made after the user changed every setting and the
\* image while its request was pending
C10_Witness ==
  \E k \in DOMAIN history :
    /\ history[k].originalUrl # originalBase64
    /\ originalBase64 # NoUrl
    /\ history[k].size # imageSize
    /\ history[k].filmStock # filmStock
    /\ history[k].iso # iso
    /\ history[k].skinDetail # skinDetail
    /\ history[k].aspectRatio # aspectRatio

(***************************************************************************)
(* Claims about the records of the history                                 *)
(***************************************************************************)
NoSharedId(records) ==
  \A j, k \in DOMAIN records : j # k => records[j].id # records[k].id

\* C11: no two records of the history (in memory or in the store) share an id,
\* also when two developments complete at the same clock reading.
C11_UniqueIds == NoSharedId(history) /\ NoSharedId(store)

\* a record without its transient flag
Fixed(record) == [record EXCEPT !.selected = FALSE]

FixedOf(records) == {Fixed(records[k]) : k \in DOMAIN records}

\* the records the pending invocations have built and are saving
BeingSaved == {runs[i].entry : i \in {j \in DOMAIN runs : runs[j].pc = "saveHistoryItem"}}

\* C12: records are immutable once created: in every step, every record of the
\* history after the step is, but for its 'selected' flag, a record the history
\* held before the step, or one created by the development or brought by the
\* load that this step completes; no field other than 'selected' is rewritten.
C12_RecordsImmutable ==
  [][\A k \in DOMAIN history' :
       Fixed(history'[k]) \in FixedOf(history) \cup BeingSaved \cup FixedOf(mount.data)]_vars

\* C12's case: a record of an earlier session has been loaded and selected, a
\* new print has been developed after it, and the current settings are no longer
\* the record's
C12_Witness ==
  /\ Len(history) = 2
  /\ history[2] = [PastPrint(1) EXCEPT !.selected = TRUE]
  /\ history[1].id = ToString(now)
  /\ filmStock # history[2].filmStock
  /\ originalBase64 # history[2].originalUrl

KeepsId(record, id) == record.id # id

\* the records of a list whose id is not `id`, in the list's order
Without(records, id) == SelectSeq(records, LAMBDA record : KeepsId(record, id))

\* C13: a successful deleteHistoryItem(id) removes from the in-memory history
\* exactly the records whose id is `id` and leaves every other record present,
\* unchanged and in its relative order; the table has had one delete-by-id of
\* that id.
C13_DeleteById ==
  [][\A id \in deleting :
       deleteHistoryItemResolves(id) =>
         /\ history' = Without(history, id)
         /\ store' = Without(store, id)]_vars

\* C13's case: the record of the earlier session was loaded and clicked (its
\* film stock is the current one), and has since been deleted from the history
\* and from the table, a selected print of this session remaining
C13_Witness ==
  /\ filmStock = PastPrint(1).filmStock
  /\ PastPrint(1).id \notin Ids(history) \cup Ids(store)
  /\ Len(history) = 1
  /\ history[1].selected
  /\ history[1] \in {[store[k] EXCEPT !.selected = TRUE] : k \in DOMAIN store}

Saving == {i \in DOMAIN runs : runs[i].pc = "saveHistoryItem"}

\* C14: a development that succeeds (its save resolves) adds exactly one record
\* to the history: the new record, which is in the table and first in the
\* in-memory list; every record the list held follows it, unchanged and in its
\* previous order.
C14_InsertFirst ==
  [][\A i \in Saving :
       saveHistoryItemResolves(i) =>
         /\ Len(history') = Len(history) + 1
         /\ history'[1] = runs[i].entry
         /\ \A k \in DOMAIN history : history'[k + 1] = history[k]
         /\ \E k \in DOMAIN store' : store'[k] = runs[i].entry]_vars

\* C14's case: a print was developed with the record of the earlier session
\* already in the list: the new record is first, the earlier one follows it, and
\* both are in the table
C14_Witness ==
  /\ Len(history) = 2
  /\ history[2] = PastPrint(1)
  /\ history[1].timestamp = now
  /\ store = <<history[2], history[1]>>

\* C15: when the startup load succeeds, the in-memory history becomes exactly
\* the rows the store returned, in the returned order, every field as stored but
\* 'selected', which is false on every record; when the load fails, the history
\* is left as it was (empty, when nothing was developed meanwhile) and the
\* processing state is not touched: no error state is entered.
C15_LoadKeepsRecords ==
  [][/\ getHistoryResolves =>
          /\ Len(history') = Len(mount.data)
          /\ \A k \in DOMAIN mount.data :
               /\ ~history'[k].selected
               /\ Fixed(history'[k]) = Fixed(mount.data[k])
     /\ getHistoryRejects =>
          /\ history' = history
          /\ processingState' = processingState]_vars

\* C15's case: the load has brought the table's record into the empty history
C15_Witness ==
  /\ mount.loadHistory = "done"
  /\ store # <<>>
  /\ history = store
  /\ runs = <<>>
  /\ originalBase64 = NoUrl

\* the load has failed: the table holds a record and the history has none
C15_WitnessOfFailure ==
  /\ mount.loadHistory = "done"
  /\ store # <<>>
  /\ history = <<>>
  /\ processingState = Idle
  /\ runs = <<>>

\* C16: toggleSelection(id) flips 'selected' on exactly the records of that id,
\* changes no other field and no other record, keeps the order of the list,
\* writes nothing to the store, and leaves the current image, the settings and
\* the processing state as they are.
C16_SelectionIsTransient ==
  [][\A id \in Ids(history) :
       toggleSelection(id) =>
         /\ Len(history') = Len(history)
         /\ \A k \in DOMAIN history :
              /\ Fixed(history'[k]) = Fixed(history[k])
              /\ history'[k].selected = (history[k].selected # (history[k].id = id))
         /\ store' = store
         /\ UNCHANGED <<filmStock, iso, skinDetail, imageSize, aspectRatio>>
         /\ UNCHANGED <<processingState, originalBase64, processedUrl>>]_vars

\* C16's case: a record is selected in the list and not in the table, while a
\* development of another image is pending
C16_Witness ==
  \E k \in DOMAIN history :
    /\ history[k].selected
    /\ history[k].originalUrl # originalBase64
    /\ processingState.status = "processing"
    /\ Fixed(history[k]) \in Range(store)

(***************************************************************************)
(* Claims about the prompt (specification SpecPrompt)                      *)
(***************************************************************************)
Built == promptOut # NoPrompt

\* the tiers of the skin-detail preset, each with the intensities it covers
SkinTiers ==
  { [text |-> SKIN_LIGHT, covers |-> {v \in SliderValues : v < 30}],
    [text |-> SKIN_HIGH, covers |-> {v \in SliderValues : v > 70}],
    [text |-> SKIN_NATURAL, covers |-> {v \in SliderValues : 30 <= v /\ v <= 70}] }

TiersOf(intensity) == {tier \in SkinTiers : intensity \in tier.covers}

\* C17: the skin-detail preset selects one of three tiers: below 30 the
\* light-grain text, above 70 the high-fidelity text, from 30 to 70 inclusive the
\* natural-variation text; exactly one tier applies to every slider value, and
\* the final prompt is the portrait sentence with that tier's text, then the
\* selected film stock's characteristics, then the grain sentence naming the
\* selected ISO.
C17_SkinTiers ==
  Built =>
    /\ Cardinality(TiersOf(skinDetail)) = 1
    /\ \A tier \in TiersOf(skinDetail) :
         promptOut =
           <<"A portrait with ", tier.text,
             ", while maintaining consistent lighting, props, and set design.",
             " ", FILM_STOCK_CHARACTERISTICS[filmStock], " ",
             "Add a substantial amount of organic film grain, resembling a ",
             ToString(iso),
             " ISO film to the image, preserving the original aesthetic. The grain should feel raw and authentic.">>

\* C17's case: the slider is at 70, the upper end of the natural tier
C17_Witness ==
  /\ Built
  /\ skinDetail = 70
  /\ promptOut[2] = SKIN_NATURAL
  /\ filmStock = "Cinestill 800T"
  /\ iso = 1600

(***************************************************************************)
(* Claims about rejections (specification SpecProcessImage)                *)
(***************************************************************************)
\* the text of the part with which the model declines
RefusalOf(api) == api.response.candidates[1].parts[1].text

CatchCategories == {PERMISSION_DENIED, KEY_RESET_REQUIRED, RATE_LIMIT}

\* C18: a REJECTION error raised inside processImage leaves its catch block as
\* it was raised: a failure decided on the response always ends in a REJECTION
\* message, never in PERMISSION_DENIED, KEY_RESET_REQUIRED or the rate-limit
\* message; a refusal is quoted whole, also when its text holds '403', '429' or
\* 'Requested entity was not found.'; an error of the API call that already is
\* a REJECTION keeps its message.
C18_RejectionPassesThrough ==
  Applied =>
    /\ (apiIn.kind = "response" /\ ~piOut.ok) =>
         /\ StartsWith(piOut.message, "REJECTION:")
         /\ piOut.message \notin CatchCategories
    /\ (apiIn \in Refusals /\ Trim(RefusalOf(apiIn)) # <<>>) =>
         /\ ~piOut.ok
         /\ piOut.message = REJECT_TEXT(Trim(RefusalOf(apiIn)))
    /\ (apiIn.kind = "throw" /\ StartsWith(apiIn.message, "REJECTION:")) =>
         piOut.message = apiIn.message

\* C18's case: the refusal holds the three signatures the catch block looks for
C18_Witness ==
  /\ Applied
  /\ apiIn \in Refusals
  /\ {T403, T429, TNotFound} \subseteq Range(RefusalOf(apiIn))
  /\ StartsWith(piOut.message, "REJECTION:")

Present(text) == text # Undefined /\ text # <<>>

\* C19: every REJECTION message processImage produces is rendered in three
\* parts by parseErrorMessage, all three non-empty: main is the text between
\* 'REJECTION:' and the first 'WHY:', why is the full explanation (for a text
\* refusal, the model's whole refusal text) and remedy is the message's own
\* remedy sentence, also when the refusal text holds 'WHY:' or 'REMEDY:'.
C19_RejectionInThreeParts ==
  (parsed # NoParse /\ apiIn.kind = "response") =>
    /\ parsed.type = "rejection"
    /\ Present(parsed.main) /\ Present(parsed.why) /\ Present(parsed.remedy)
    /\ parsed.main = Trim(SubSeq(piOut.message, 2, IndexOf(piOut.message, "WHY:") - 1))
    /\ parsed.remedy = <<piOut.message[Len(piOut.message)]>>
    /\ (apiIn \in Refusals /\ Trim(RefusalOf(apiIn)) # <<>>) =>
         parsed.why = Trim(RefusalOf(apiIn))

\* C19 for the refusals that hold neither 'WHY:' nor 'REMEDY:'
C19_PlainRefusals ==
  (apiIn \in Refusals /\ {"WHY:", "REMEDY:"} \cap Range(RefusalOf(apiIn)) = {})
    => C19_RejectionInThreeParts

(***************************************************************************)
(* Claims about the end of a submission (specification Spec)               *)
(***************************************************************************)
Pending == processingState.status \in {"checking-key", "processing"}

\* C20: every submission leaves the pending states once its awaited calls
\* (hasSelectedApiKey, processImage, saveHistoryItem) have settled, by resolving
\* or by rejecting: when no invocation of startProcessing is left waiting, the
\* status is 'idle' or 'error', so the submit control is not left disabled.
C20_SubmissionSettles == runs = <<>> => ~Pending

(***************************************************************************)
(* Claims about the key gate and the session indicator                     *)
(***************************************************************************)
\* the steps of startProcessing in which a check of the key fails: the click
\* that finds no session flag, and hasSelectedApiKey answering false; each opens
\* the key modal, leaves the status 'idle' and issues no call; and a call is
\* issued only by an invocation that closed over a loaded image
C21_GateWithinRun ==
  [][/\ (startProcessing /\ ~sessionFlag) =>
          /\ showKeyModal'
          /\ processingState' = Idle
          /\ runs' = runs
     /\ \A i \in DOMAIN runs :
          /\ hasSelectedApiKeySettles(i, "false") =>
               /\ showKeyModal'
               /\ processingState' = Idle
               /\ runs' = RemoveAt(runs, i)
          /\ hasSelectedApiKeySettles(i, "true") =>
               /\ runs[i].c.originalBase64 # NoUrl
               /\ runs[i].calls = 0]_vars

\* C21: processImage is called only behind the key gate; in particular, once a
\* KEY_RESET_REQUIRED failure has removed the session flag, no call is issued
\* until handleKeyActivation has completed (which is what sets the flag again):
\* every step that issues a call is taken with the session flag set.
C21_KeyGate ==
  [][\A i \in DOMAIN runs : hasSelectedApiKeySettles(i, "true") => sessionFlag]_vars

\* C22: the 'Session Active' indicator is truthful: whenever isKeyReady is
\* true, the session flag is set in sessionStorage.
C22_IndicatorTruthful == isKeyReady => sessionFlag

(***************************************************************************)
(* Claims about the click on a record of the history grid                  *)
(***************************************************************************)
\* what the click on a record restores, but for the skin detail
RestoresButSkinDetail(item) ==
  /\ originalBase64' = item.originalUrl
  /\ processedUrl' = item.processedUrl
  /\ aspectRatio' = item.aspectRatio
  /\ imageSize' = item.size
  /\ filmStock' = item.filmStock
  /\ iso' = item.iso
  /\ zoomScale' = ZOOM_MIN
  /\ history' = history
  /\ store' = store

\* the click restores a record whose skin detail is not 0 exactly
C23_ClickRestoresAboveZero ==
  [][\A k \in DOMAIN history :
       (historyItemClick(k) /\ history[k].skinDetail # 0) =>
         /\ RestoresButSkinDetail(history[k])
         /\ skinDetail' = history[k].skinDetail]_vars

\* C23: clicking a history record restores exactly that record: afterwards the
\* current image, print, aspect ratio, size, film stock, ISO and skin detail are
\* the record's, for every skin detail in 0..100, and zoom is reset to 1; the
\* history list and the store are unchanged.
C23_ClickRestoresRecord ==
  [][\A k \in DOMAIN history :
       historyItemClick(k) =>
         /\ RestoresButSkinDetail(history[k])
         /\ skinDetail' = history[k].skinDetail]_vars

(***************************************************************************)
(* Claims about the history and the table behind it                        *)
(***************************************************************************)
\* no load, save or delete is pending
Quiet ==
  /\ mount.loadHistory = "done"
  /\ Saving = {}
  /\ deleting = {}

\* C24: whenever no load, save or delete is pending, the in-memory history
\* holds exactly the records held by the persistent store (the same set of
\* identifiers), for every interleaving of the startup load, developments and
\* deletions.
C24_HistoryIsStore == Quiet => Ids(history) = Ids(store)

\* a failure of the store leaves the in-memory history as it is
StoreFailureKeepsHistory ==
  /\ \A i \in Saving, msg \in StoreErrors :
       saveHistoryItemRejects(i, msg) => history' = history
  /\ \A id \in deleting :
       deleteHistoryItemRejects(id) => history' = history

ResetsZoom ==
  \/ \E file \in Files : handleFileUpload(file)
  \/ \E i \in DOMAIN runs : saveHistoryItemResolves(i)
  \/ \E k \in DOMAIN history : historyItemClick(k)
  \/ newNegative
  \/ resetZoom

\* C26: zoom stays in range: in every reachable state 1 <= zoomScale <= 4
\* (in halves: ZOOM_MIN to ZOOM_MAX), whatever the sequence of zoom-in, zoom-out
\* and reset; and zoomScale is exactly 1 after a file upload, a successful
\* development, a click on a history record and 'New Negative'.
C26_ZoomInRange ==
  /\ [](ZOOM_MIN <= zoomScale /\ zoomScale <= ZOOM_MAX)
  /\ [][ResetsZoom => zoomScale' = ZOOM_MIN]_vars

\* C26's case: the view is zoomed in as far as it goes
C26_Witness ==
  /\ MainView = "comparison"
  /\ zoomScale = ZOOM_MAX

(***************************************************************************)
(* Claims about ComparisonSlider (specification SpecSlider)                *)
(***************************************************************************)
PointerMoves == \E p \in Pointers : handleMouseMove(p)

\* C27: in ComparisonSlider, pan is zero whenever the view is not zoomed: in
\* every settled state with zoomScale = 1 the pan offset is (0, 0); apart from
\* that reset to (0, 0), pan changes only on a pointer move while isPanning is
\* true, isDraggingSlider is false and zoomScale > 1; and a pointer move never
\* changes both the slider position and the pan.
C27_PanOnlyWhenZoomed ==
  /\ []((Settled /\ zoomScale = ZOOM_MIN) => slider.pan = ZeroPan)
  /\ [][/\ slider'.pan # slider.pan =>
             \/ /\ PointerMoves
                /\ slider.isPanning
                /\ ~slider.isDraggingSlider
                /\ zoomScale > ZOOM_MIN
             \/ /\ panResetEffect
                /\ zoomScale = ZOOM_MIN
                /\ slider'.pan = ZeroPan
        /\ PointerMoves =>
             ~(slider'.position # slider.position /\ slider'.pan # slider.pan)]_vars

\* C27's case: the frame was panned while zoomed in, the zoom went back to 1
\* with the pointer still down, and the pan is back at the centre
C27_Witness ==
  /\ Settled
  /\ zoomScale = ZOOM_MIN
  /\ slider.isPanning
  /\ slider.lastMousePos # [x |-> 0, y |-> 0]
  /\ slider.position # 50
  /\ slider.pan = ZeroPan

=============================================================================
